---------------------------- MODULE Spec2Model ----------------------------
(***************************************************************************)
(* A model of stress/driver.py: the workload driver bash_openstack with    *)
(* its helpers _create_cases and _error_in_logs.                           *)
(*                                                                         *)
(* One run of bash_openstack is a sequential process; pc is its position. *)
(* The cluster, the action layer (test_case), the tracker (state.State)   *)
(* and the remote shell (utils.util) are the environment: every result    *)
(* they hand back is chosen with \E.                                       *)
(***************************************************************************)
EXTENDS Integers, Sequences, FiniteSets, TLC

(***************************************************************************)
(* Bounds of the model.                                                    *)
(***************************************************************************)
MaxTime == 18
MaxHandles == 2
MaxVms == 1
CountCap == 2
MaxN == 4
MaxK == 4
MaxSeed == 2
MaxDraws == 3

(***************************************************************************)
(* Numbers of the program.                                                 *)
(***************************************************************************)
WeightTotal == 100
RetryInterval == 5
LogCheckLimit == 100
CleanupTries == 60

VARIABLES
    pc,             \* position of the run in bash_openstack
    choice_spec,    \* argument: the workload, a sequence of choices
    duration,       \* kwargs['duration'], a normalised datetime.timedelta
    sleep_time,     \* kwargs['sleep_time'] in seconds
    now,            \* what time.time() returns
    computes,       \* the node list from _get_compute_nodes
    logs,           \* per node: does the nova log hold an ERROR/TRACE line
    cases,          \* the pool built by _create_cases
    test_end_time,
    state,          \* the State object: id -> status, "absent" when not held
    retry_list,
    last_retry,
    cooldown,
    logcheck_count,
    test_succeeded,
    active_vms,     \* the list built at line 183 (ids)
    target,         \* index in active_vms of the server being polled
    i,              \* the poll counter of lines 189-196
    gets,           \* get_server calls made for the server last polled
    result,         \* what the run returned: "none", "True", "False"
    fault,          \* the exception that left bash_openstack, "none" if none
    nextHandle,     \* the number of pending-action objects created so far
    calls,          \* per handle: the number of retry() calls made on it
                    \* (in the loop it stops at CountCap)
    ev,             \* what the last step did to the outside world
    chosen,         \* the case random.choice gave the last step, if any
    lastPass,       \* the last drain pass: pool before, answers, raiser
    lastCheck,      \* the last _error_in_logs call: unreachable nodes, result
    nIter, nInvoke, nPass, nCheck,  \* counts of iterations, invocations,
                                    \* drain passes, checks; they stop at CountCap
    tripped,        \* a trip-wire check (line 173) has returned True
    loopCheckTrue,  \* a check inside the loop (158 or 173) has returned True
    sinceCheck,     \* actions invoked since the start or the last trip-wire check
    deleted,        \* ids delete_server was called for
    firstPoll,      \* every server polled so far was gone at its first poll
    poolK, poolDone, \* the handles' answer profile of the pool specification
    seed,           \* kwargs['seed'], NoSeed when not given
    gen,            \* the state of the random module's generator, per run
    sampled,        \* per run: the actions random.choice has given so far
    outcomes        \* per place in the sequence: what the invoked action drew

vars == << pc, choice_spec, duration, sleep_time, now, computes, logs, cases,
           test_end_time, state, retry_list, last_retry, cooldown,
           logcheck_count, test_succeeded, chosen, active_vms, target, i, gets,
           result, fault, nextHandle, calls, ev, lastPass, lastCheck,
           nIter, nInvoke, nPass, nCheck, tripped, loopCheckTrue, sinceCheck,
           deleted,
           firstPoll, poolK, poolDone, seed, gen, sampled, outcomes >>

-----------------------------------------------------------------------------
(***************************************************************************)
(* Helpers.                                                                *)
(***************************************************************************)
Range(s) == { s[j] : j \in DOMAIN s }

Repeat(x, n) == [ j \in 1..n |-> x ]

Bump(n) == IF n < CountCap THEN n + 1 ELSE n

Count(s, a) == Cardinality({ j \in DOMAIN s : s[j].action = a })

RECURSIVE SumWeights(_)
SumWeights(s) == IF s = << >> THEN 0
                 ELSE s[1].probability + SumWeights(Tail(s))

-----------------------------------------------------------------------------
(***************************************************************************)
(* _create_cases (lines 50-63).  The loop variable i of range(p) is left  *)
(* unbound by an empty range; line 60 then reads it.                       *)
(***************************************************************************)
Unbound == -1

Choice(a, p) == [action |-> a, probability |-> p]

\* the value of i after "for i in range(p)": the last element, or as before
AfterRange(iv, p) == IF p > 0 THEN p - 1 ELSE iv

RECURSIVE CreateLoop(_, _, _, _, _)
CreateLoop(spec, idx, acc, count, iv) ==
    IF idx > Len(spec)
    THEN IF count = WeightTotal
         THEN [fault |-> "none", cases |-> acc]
         ELSE [fault |-> "AssertionError", cases |-> << >>]
    ELSE LET choice == spec[idx]
             p      == choice.probability
             i1     == AfterRange(iv, p)
         IN  IF i1 = Unbound
             THEN [fault |-> "UnboundLocalError", cases |-> << >>]
             ELSE CreateLoop(spec, idx + 1, acc \o Repeat(choice, p),
                             count + p, i1 + p)

RECURSIVE Expand(_)
Expand(spec) == IF spec = << >> THEN << >>
                ELSE Repeat(spec[1], spec[1].probability) \o Expand(Tail(spec))

\* the pool built without the test of line 62
_create_cases_unchecked(spec) == [fault |-> "none", cases |-> Expand(spec)]

_create_cases(spec) == CreateLoop(spec, 1, << >>, 0, Unbound)

-----------------------------------------------------------------------------
(***************************************************************************)
(* The inputs a run is started with.                                       *)
(***************************************************************************)
Nodes == {"n1", "n2"}
Ids == 1..MaxVms
Handles == 1..MaxHandles

Regular == << Choice("A", 60), Choice("B", 40) >>
ZeroLast == << Choice("A", 100), Choice("B", 0) >>
ZeroFirst == << Choice("A", 0), Choice("B", 100) >>
Short == << Choice("A", 60), Choice("B", 30) >>
Long == << Choice("A", 60), Choice("B", 50) >>

Timedelta(d, s, us) == [days |-> d, seconds |-> s, microseconds |-> us]

Run(w, d, st) == [choice_spec |-> w, duration |-> d, sleep_time |-> st]

\* the runs considered: workload, duration, sleep_time (seconds)
Runs ==
    { Run(Regular, Timedelta(0, 0, 0), 0),
      Run(Regular, Timedelta(0, 3, 0), 0),
      Run(Regular, Timedelta(0, 9, 0), 3),
      Run(Regular, Timedelta(1, 0, 0), 3),
      Run(Regular, Timedelta(0, 0, 500000), 0),
      Run(ZeroLast, Timedelta(0, 3, 0), 3),
      Run(ZeroFirst, Timedelta(0, 3, 0), 3),
      Run(Short, Timedelta(0, 3, 0), 3),
      Run(Long, Timedelta(0, 3, 0), 3) }

\* line 120: the seed when kwargs holds none
NoSeed == -1

NoPass == [before |-> << >>, answers |-> << >>, raiser |-> 0, made |-> FALSE]
NoCheck == [down |-> {}, result |-> FALSE, reads |-> 0, made |-> FALSE]

-----------------------------------------------------------------------------
(***************************************************************************)
(* _error_in_logs (lines 86-96).  ssh stands for utils.util.ssh called    *)
(* with check=False: it hands back the command's output, and the output   *)
(* of a read that failed is empty.                                         *)
(***************************************************************************)
ssh(node, down, lg) ==
    IF node \in down THEN "" ELSE IF lg[node] THEN "ERROR" ELSE ""

RECURSIVE ErrorScan(_, _, _, _)
ErrorScan(nodes, idx, down, lg) ==
    IF idx > Len(nodes)
    THEN [result |-> FALSE, reads |-> Len(nodes)]
    ELSE LET errors == ssh(nodes[idx], down, lg)
         IN  IF errors # ""
             THEN [result |-> TRUE, reads |-> idx]
             ELSE ErrorScan(nodes, idx + 1, down, lg)

\* "return False" inside the loop: only the first node is read
_error_in_logs_first_node(nodes, down, lg) ==
    IF Len(nodes) = 0
    THEN [result |-> FALSE, reads |-> 0]
    ELSE [result |-> ssh(nodes[1], down, lg) # "", reads |-> 1]

_error_in_logs(nodes, down, lg) == ErrorScan(nodes, 1, down, lg)

CheckRecord(down, r) ==
    [down |-> down, result |-> r.result, reads |-> r.reads, made |-> TRUE]

-----------------------------------------------------------------------------
(***************************************************************************)
(* What one action invocation may do to the tracker and to the logs.       *)
(***************************************************************************)
Statuses == {"ACTIVE", "BUILD"}

TrackerMoves(st) ==
    {st} \cup { [st EXCEPT ![id] = s] : id \in Ids,
                                        s \in Statuses \cup {"absent"} }

LogMoves(lg) == {lg} \cup { [lg EXCEPT ![n] = TRUE] : n \in Nodes }

-----------------------------------------------------------------------------
Init ==
    /\ pc = "start"
    /\ \E r \in Runs : /\ choice_spec = r.choice_spec
                       /\ duration = r.duration
                       /\ sleep_time = r.sleep_time
    /\ now = 0
    /\ computes = << "n1", "n2" >>
    /\ logs \in [Nodes -> BOOLEAN]
    /\ cases = << >>
    /\ test_end_time = 0
    /\ state = [id \in Ids |-> "absent"]
    /\ retry_list = << >>
    /\ last_retry = 0
    /\ cooldown = FALSE
    /\ logcheck_count = 0
    /\ test_succeeded = TRUE
    /\ chosen = "none"
    /\ active_vms = << >>
    /\ target = 0
    /\ i = 0
    /\ gets = 0
    /\ result = "none"
    /\ fault = "none"
    /\ nextHandle = 0
    /\ calls = [h \in Handles |-> 0]
    /\ ev = "none"
    /\ lastPass = NoPass
    /\ lastCheck = NoCheck
    /\ nIter = 0 /\ nInvoke = 0 /\ nPass = 0 /\ nCheck = 0
    /\ tripped = FALSE
    /\ loopCheckTrue = FALSE
    /\ sinceCheck = 0
    /\ deleted = {}
    /\ firstPoll = TRUE
    /\ poolK = 0
    /\ poolDone = FALSE
    /\ seed = NoSeed
    /\ gen = << 0, 0 >>
    /\ sampled = << << >>, << >> >>
    /\ outcomes = << >>

sampleVars == << seed, gen, sampled, outcomes >>
inputs == << choice_spec, duration, sleep_time, computes, poolK, poolDone,
             sampleVars >>
cleanupVars == << active_vms, target, i, gets, deleted, firstPoll >>
loopVars == << retry_list, last_retry, cooldown, logcheck_count,
               nextHandle, calls >>
histFlags == << tripped, loopCheckTrue, sinceCheck >>

(***************************************************************************)
(* Lines 117-144: the logs are truncated, the pool is built, the deadline  *)
(* is set.  A failure of _create_cases leaves bash_openstack at line 132.  *)
(***************************************************************************)
Deadline(t, d) == t + d.seconds

\* lines 129-130 left out: the logs are as the run found them
Setup_logs_kept ==
    /\ pc = "start"
    /\ logs' = logs
    /\ LET r == _create_cases(choice_spec)
       IN  IF r.fault # "none"
           THEN /\ pc' = "aborted"
                /\ fault' = r.fault
                /\ UNCHANGED << cases, test_end_time >>
           ELSE /\ pc' = "inject"
                /\ cases' = r.cases
                /\ test_end_time' = Deadline(now, duration)
                /\ fault' = fault
    /\ ev' = "setup"
    /\ chosen' = "none"
    /\ lastPass' = NoPass /\ lastCheck' = NoCheck
    /\ UNCHANGED << inputs, now, state, loopVars, test_succeeded, cleanupVars,
                    result, nIter, nInvoke, nPass, nCheck, histFlags >>

Setup ==
    /\ pc = "start"
    /\ logs' = [n \in Nodes |-> IF n \in Range(computes) THEN FALSE ELSE logs[n]]
    /\ LET r == _create_cases(choice_spec)
       IN  IF r.fault # "none"
           THEN /\ pc' = "aborted"
                /\ fault' = r.fault
                /\ UNCHANGED << cases, test_end_time >>
           ELSE /\ pc' = "inject"
                /\ cases' = r.cases
                /\ test_end_time' = Deadline(now, duration)
                /\ fault' = fault
    /\ ev' = "setup"
    /\ chosen' = "none"
    /\ lastPass' = NoPass /\ lastCheck' = NoCheck
    /\ UNCHANGED << inputs, now, state, loopVars, test_succeeded, cleanupVars,
                    result, nIter, nInvoke, nPass, nCheck, histFlags >>

-----------------------------------------------------------------------------
(***************************************************************************)
(* The loop, lines 146-179, in three steps:                                 *)
(*   "inject" 147-156, "check" 157-169, "sleep" 170-179.                    *)
(*                                                                         *)
(* The clock is in whole seconds and moves in time.sleep alone, by         *)
(* sleep_time: a sleep_time of 0 stands for a sleep of less than a second, *)
(* during which time.time() keeps its value.  A run whose clock would pass *)
(* MaxTime is not followed further.                                        *)
(***************************************************************************)
\* the deadline test of line 148 written with <=
ShouldInject_at_deadline == ~cooldown /\ now <= test_end_time

\* line 147-148: an action is injected in this iteration
ShouldInject == ~cooldown /\ now < test_end_time

\* lines 149-153: random.choice, invoke, and the append of what it returned
Invoke ==
    /\ pc = "inject"
    /\ ShouldInject
    /\ \E c \in Range(cases), st \in TrackerMoves(state), lg \in LogMoves(logs),
          ret \in {"None", "handle", "raise"} :
          /\ ret = "handle" => nextHandle < MaxHandles
          /\ chosen' = c.action
          /\ state' = st
          /\ logs' = lg
          /\ IF ret = "raise"
             THEN /\ pc' = "aborted"
                  /\ fault' = "ActionFault"
                  /\ UNCHANGED << retry_list, nextHandle >>
             ELSE /\ pc' = "check"
                  /\ fault' = fault
                  /\ IF ret = "handle"
                     THEN /\ nextHandle' = nextHandle + 1
                          /\ retry_list' = Append(retry_list, nextHandle + 1)
                     ELSE UNCHANGED << retry_list, nextHandle >>
    /\ nIter' = Bump(nIter)
    /\ nInvoke' = Bump(nInvoke)
    /\ sinceCheck' = sinceCheck + 1
    /\ ev' = "invoke"
    /\ lastPass' = NoPass /\ lastCheck' = NoCheck
    /\ UNCHANGED << inputs, now, cases, test_end_time, last_retry, cooldown,
                    logcheck_count, calls, test_succeeded, cleanupVars, result,
                    nPass, nCheck, tripped, loopCheckTrue >>

\* the deadline tested after the invocation instead of before it
EnterCooldown_after_invoke ==
    /\ pc = "inject"
    /\ ~cooldown
    /\ ~(now < test_end_time)
    /\ \E c \in Range(cases) : chosen' = c.action
    /\ cooldown' = TRUE
    /\ pc' = "check"
    /\ nIter' = Bump(nIter)
    /\ nInvoke' = Bump(nInvoke)
    /\ sinceCheck' = sinceCheck + 1
    /\ ev' = "invoke"
    /\ lastPass' = NoPass /\ lastCheck' = NoCheck
    /\ UNCHANGED << inputs, now, logs, cases, test_end_time, state, retry_list,
                    last_retry, logcheck_count, nextHandle, calls,
                    test_succeeded, cleanupVars, result, fault, nPass,
                    nCheck, tripped, loopCheckTrue >>

\* lines 154-156: the deadline has passed
EnterCooldown ==
    /\ pc = "inject"
    /\ ~cooldown
    /\ ~ShouldInject
    /\ cooldown' = TRUE
    /\ pc' = "check"
    /\ nIter' = Bump(nIter)
    /\ ev' = "cooldown"
    /\ chosen' = "none"
    /\ lastPass' = NoPass /\ lastCheck' = NoCheck
    /\ UNCHANGED << inputs, now, logs, cases, test_end_time, state, retry_list,
                    last_retry, logcheck_count, nextHandle, calls,
                    test_succeeded, cleanupVars, result, fault, nInvoke, nPass,
                    nCheck, histFlags >>

\* line 147 with cooldown set: nothing is injected
SkipInject ==
    /\ pc = "inject"
    /\ cooldown
    /\ ~ShouldInject
    /\ pc' = "check"
    /\ nIter' = Bump(nIter)
    /\ ev' = "skip"
    /\ chosen' = "none"
    /\ lastPass' = NoPass /\ lastCheck' = NoCheck
    /\ UNCHANGED << inputs, now, logs, cases, test_end_time, state, loopVars,
                    test_succeeded, cleanupVars, result, fault, nInvoke, nPass,
                    nCheck, histFlags >>

\* the assignment of lines 159 and 174 left out
Verdict_dropped(succeeded, hit) == succeeded

\* lines 158-159 and 173-174: the flag after a check that returned hit
Verdict(succeeded, hit) == IF hit THEN FALSE ELSE succeeded

\* line 157 without the test of the pool
CooldownExit_pool_ignored == cooldown

\* line 157: the loop is left through the cooldown path
CooldownExit == cooldown /\ Len(retry_list) = 0

\* lines 157-160
CooldownCheck ==
    /\ pc = "check"
    /\ CooldownExit
    /\ \E down \in SUBSET Range(computes) :
          LET r == _error_in_logs(computes, down, logs)
          IN  /\ lastCheck' = CheckRecord(down, r)
              /\ test_succeeded' = Verdict(test_succeeded, r.result)
              /\ loopCheckTrue' = (loopCheckTrue \/ r.result)
    /\ pc' = "cleanup"
    /\ nCheck' = Bump(nCheck)
    /\ ev' = "check"
    /\ chosen' = "none"
    /\ lastPass' = NoPass
    /\ UNCHANGED << inputs, now, logs, cases, test_end_time, state, loopVars,
                    cleanupVars, result, fault, nIter, nInvoke, nPass, tripped,
                    sinceCheck >>

\* line 162
RetryDue == now - last_retry > RetryInterval

\* the append of line 167 made for every handle
NewRetryList_none_dropped(list, ans) == list

\* the pass with the test of line 166 turned round
NewRetryList_kept_on_true(list, ans) == SelectSeq(list, LAMBDA v : ans[v])

\* lines 164-168: the handles a pass keeps, ans[v] being what v.retry() returned
NewRetryList(list, ans) == SelectSeq(list, LAMBDA v : ~ans[v])

\* lines 162-169.  raiser is the place in retry_list of a handle whose
\* retry() raises, 0 when none does: the exception leaves bash_openstack.
RetryPass ==
    /\ pc = "check"
    /\ ~CooldownExit
    /\ RetryDue
    /\ \E ans \in [Range(retry_list) -> BOOLEAN], raiser \in 0..Len(retry_list) :
          /\ lastPass' = [before |-> retry_list, answers |-> ans,
                          raiser |-> raiser, made |-> TRUE]
          /\ calls' = [h \in Handles |->
                         IF \E j \in DOMAIN retry_list :
                               /\ retry_list[j] = h
                               /\ (raiser = 0 \/ j <= raiser)
                         THEN Bump(calls[h]) ELSE calls[h]]
          /\ IF raiser # 0
             THEN /\ pc' = "aborted"
                  /\ fault' = "RetryFault"
                  /\ UNCHANGED << retry_list, last_retry >>
             ELSE /\ pc' = "sleep"
                  /\ fault' = fault
                  /\ retry_list' = NewRetryList(retry_list, ans)
                  /\ last_retry' = now
    /\ nPass' = Bump(nPass)
    /\ ev' = "pass"
    /\ chosen' = "none"
    /\ lastCheck' = NoCheck
    /\ UNCHANGED << inputs, now, logs, cases, test_end_time, state, cooldown,
                    logcheck_count, nextHandle, test_succeeded,
                    cleanupVars, result, nIter, nInvoke, nCheck, histFlags >>

\* lines 157 and 162, neither condition holding
NoRetryPass ==
    /\ pc = "check"
    /\ ~CooldownExit
    /\ ~RetryDue
    /\ pc' = "sleep"
    /\ ev' = "none"
    /\ chosen' = "none"
    /\ lastPass' = NoPass /\ lastCheck' = NoCheck
    /\ UNCHANGED << inputs, now, logs, cases, test_end_time, state, loopVars,
                    test_succeeded, cleanupVars, result, fault, nIter, nInvoke,
                    nPass, nCheck, histFlags >>

\* line 172
LogCheckDue == logcheck_count > LogCheckLimit

\* lines 170, 178-179: time.sleep, and the counter steps
SleepCount ==
    /\ pc = "sleep"
    /\ now + sleep_time <= MaxTime
    /\ ~LogCheckDue
    /\ now' = now + sleep_time
    /\ logcheck_count' = logcheck_count + 1
    /\ pc' = "inject"
    /\ ev' = "sleep"
    /\ chosen' = "none"
    /\ lastPass' = NoPass /\ lastCheck' = NoCheck
    /\ UNCHANGED << inputs, logs, cases, test_end_time, state, retry_list,
                    last_retry, cooldown, nextHandle, calls,
                    test_succeeded, cleanupVars, result, fault, nIter, nInvoke,
                    nPass, nCheck, histFlags >>

\* the break of line 175 left out
AfterTripWire_no_break(hit) == "inject"

\* lines 173-177: where the run goes after a trip-wire check
AfterTripWire(hit) == IF hit THEN "cleanup" ELSE "inject"

\* lines 170-177: time.sleep, and the trip-wire check
SleepTripWire ==
    /\ pc = "sleep"
    /\ now + sleep_time <= MaxTime
    /\ LogCheckDue
    /\ now' = now + sleep_time
    /\ \E down \in SUBSET Range(computes) :
          LET r == _error_in_logs(computes, down, logs)
          IN  /\ lastCheck' = CheckRecord(down, r)
              /\ test_succeeded' = Verdict(test_succeeded, r.result)
              /\ pc' = AfterTripWire(r.result)
              /\ logcheck_count' = IF r.result THEN logcheck_count ELSE 0
              /\ tripped' = (tripped \/ r.result)
              /\ loopCheckTrue' = (loopCheckTrue \/ r.result)
    /\ nCheck' = Bump(nCheck)
    /\ sinceCheck' = 0
    /\ ev' = "tripwire"
    /\ chosen' = "none"
    /\ lastPass' = NoPass
    /\ UNCHANGED << inputs, logs, cases, test_end_time, state, retry_list,
                    last_retry, cooldown, nextHandle, calls, cleanupVars,
                    result, fault, nIter, nInvoke, nPass >>

-----------------------------------------------------------------------------
(***************************************************************************)
(* Cleanup, lines 180-207.  The tracker is keyed by server id, so a       *)
(* server stands for its id; a dictionary is walked in any order.          *)
(***************************************************************************)
\* line 183 testing for another status
IsActive_build(st, id) == st[id] = "BUILD"

\* line 183: the servers the tracker holds as ACTIVE
IsActive(st, id) == st[id] = "ACTIVE"

ActiveOrders(st) ==
    LET A == { id \in Ids : IsActive(st, id) }
    IN  { s \in [1..Cardinality(A) -> A] :
            \A j, k \in DOMAIN s : j # k => s[j] # s[k] }

\* lines 181-185.  failAt is the place of a delete_server call that raises,
\* 0 when none does.
DeleteAll ==
    /\ pc = "cleanup"
    /\ \E ord \in ActiveOrders(state), failAt \in 0..Cardinality(Ids) :
          /\ failAt <= Len(ord)
          /\ active_vms' = ord
          /\ IF failAt # 0
             THEN /\ deleted' = { ord[j] : j \in 1..failAt }
                  /\ pc' = "aborted"
                  /\ fault' = "DeleteFault"
                  /\ UNCHANGED << target, i, gets >>
             ELSE /\ deleted' = Range(ord)
                  /\ pc' = "poll"
                  /\ fault' = fault
                  /\ target' = 1
                  /\ i' = 0
                  /\ gets' = 0
    /\ ev' = "delete"
    /\ chosen' = "none"
    /\ lastPass' = NoPass /\ lastCheck' = NoCheck
    /\ UNCHANGED << inputs, now, logs, cases, test_end_time, state, loopVars,
                    test_succeeded, result, firstPoll, nIter, nInvoke, nPass,
                    nCheck, histFlags >>

\* line 196: the poll budget is spent
BudgetSpent(n) == n > CleanupTries

\* the result of the check of line 197 recorded like the others
AfterDiagnostic_used(succeeded, hit) == IF hit THEN FALSE ELSE succeeded

\* line 197: the flag after the diagnostic check, whose result is dropped
AfterDiagnostic(succeeded, hit) == succeeded

\* line 193: what ends the polling of a server
Gone(answer) == answer # "found"

\* state.delete_instance_state, line 201
delete_instance_state(st, id) == [st EXCEPT ![id] = "absent"]

\* lines 187-201, one get_server call and what follows it.  The answer is
\* the server ("found"), the not-found error or another exception.
\* Nothing reads the clock after the loop, so the sleep of line 199 leaves
\* now as it is.  i calls found the server before this one.
Poll ==
    /\ pc = "poll"
    /\ target <= Len(active_vms)
    /\ \E answer \in {"found", "NotFound", "fault"} :
          LET kill_id == active_vms[target]
          IN  IF Gone(answer)
              THEN /\ state' = delete_instance_state(state, kill_id)
                   /\ firstPoll' = (firstPoll /\ i = 0 /\ answer = "NotFound")
                   /\ target' = target + 1
                   /\ i' = IF target < Len(active_vms) THEN 0 ELSE i
                   /\ ev' = IF answer = "NotFound" THEN "killed" ELSE "killed_on_fault"
                   /\ chosen' = "none"
                   /\ lastCheck' = NoCheck
                   /\ UNCHANGED << pc, fault, nCheck, test_succeeded >>
              ELSE /\ i' = i + 1
                   /\ IF BudgetSpent(i + 1)
                      THEN /\ \E down \in SUBSET Range(computes) :
                                LET r == _error_in_logs(computes, down, logs)
                                IN  /\ lastCheck' = CheckRecord(down, r)
                                    /\ test_succeeded' =
                                          AfterDiagnostic(test_succeeded, r.result)
                           /\ nCheck' = Bump(nCheck)
                           /\ pc' = "aborted"
                           /\ fault' = "CleanupTimeout"
                           /\ ev' = "timeout"
                           /\ chosen' = "none"
                      ELSE /\ lastCheck' = NoCheck
                           /\ ev' = "found"
                           /\ chosen' = "none"
                           /\ UNCHANGED << pc, fault, nCheck, test_succeeded >>
                   /\ UNCHANGED << state, firstPoll, target >>
    /\ gets' = i + 1
    /\ lastPass' = NoPass
    /\ UNCHANGED << inputs, now, logs, cases, test_end_time, loopVars,
                    active_vms, deleted, result, nIter, nInvoke, nPass,
                    histFlags >>

\* lines 203-207
Finish ==
    /\ pc = "poll"
    /\ target > Len(active_vms)
    /\ result' = IF test_succeeded THEN "True" ELSE "False"
    /\ pc' = "done"
    /\ ev' = "summary"
    /\ chosen' = "none"
    /\ lastPass' = NoPass /\ lastCheck' = NoCheck
    /\ UNCHANGED << inputs, now, logs, cases, test_end_time, state, loopVars,
                    test_succeeded, cleanupVars, fault, nIter, nInvoke, nPass,
                    nCheck, histFlags >>

-----------------------------------------------------------------------------
Next ==
    \/ Setup
    \/ Invoke
    \/ EnterCooldown
    \/ SkipInject
    \/ CooldownCheck
    \/ RetryPass
    \/ NoRetryPass
    \/ SleepCount
    \/ SleepTripWire
    \/ DeleteAll
    \/ Poll
    \/ Finish

Spec == Init /\ [][Next]_vars

-----------------------------------------------------------------------------
(***************************************************************************)
(* Runs followed for ever.  The program reads the clock only to compare:   *)
(* time.time() < test_end_time (line 148) and time.time() - last_retry > 5 *)
(* (line 162).  Moving the origin of time back by sleep_time changes no    *)
(* comparison, and a deadline already passed stays passed at 0; Rebase     *)
(* does that when the next sleep would pass MaxTime, so that the clock     *)
(* can go on.  Time advances (sleep_time > 0), the workload is a valid     *)
(* one, and every external call returns: no step raises but the cleanup    *)
(* timeout, and get_server fails only with not-found.  Each step of the    *)
(* run is taken in the end, and a handle that is retried again and again   *)
(* is dropped by some pass.                                                *)
(***************************************************************************)
LiveInit ==
    /\ Init
    /\ sleep_time > 0
    /\ duration = Timedelta(0, 3, 0)
    /\ _create_cases(choice_spec).fault = "none"

Rebase ==
    /\ pc = "sleep"
    /\ now + sleep_time > MaxTime
    /\ test_end_time <= now
    /\ now' = now - sleep_time
    /\ last_retry' = last_retry - sleep_time
    /\ test_end_time' = IF test_end_time > sleep_time
                        THEN test_end_time - sleep_time ELSE 0
    /\ UNCHANGED << pc, inputs, logs, cases, state, retry_list, cooldown,
                    logcheck_count, nextHandle, calls, test_succeeded, chosen,
                    cleanupVars, result, fault, ev, lastPass, lastCheck,
                    nIter, nInvoke, nPass, nCheck, histFlags >>

\* a drain pass that drops handle h
Resolve(h) ==
    /\ RetryPass
    /\ h \in Range(retry_list)
    /\ h \notin Range(retry_list')

NextLive ==
    \/ Setup
    \/ Invoke /\ fault' = "none"
    \/ EnterCooldown
    \/ SkipInject
    \/ CooldownCheck
    \/ RetryPass /\ fault' = "none"
    \/ NoRetryPass
    \/ SleepCount
    \/ SleepTripWire
    \/ Rebase
    \/ DeleteAll /\ fault' = "none"
    \/ Poll /\ ev' # "killed_on_fault"
    \/ Finish

SpecLive ==
    /\ LiveInit
    /\ [][NextLive]_vars
    /\ WF_vars(NextLive)
    /\ \A h \in Handles : SF_vars(Resolve(h))

-----------------------------------------------------------------------------
(***************************************************************************)
(* The drain pass of lines 164-168 on its own: a pool of N handles, each   *)
(* answering retry() with poolDone on its poolK-th call and with the       *)
(* opposite before, drained poolK times.  nPass counts the passes.         *)
(***************************************************************************)
ProfileAnswer(h) == IF calls[h] + 1 < poolK THEN ~poolDone ELSE poolDone

PoolInit ==
    /\ pc = "pool"
    /\ \E n \in 1..MaxN : retry_list = [j \in 1..n |-> j]
    /\ poolK \in 1..MaxK
    /\ poolDone \in BOOLEAN
    /\ calls = [h \in 1..MaxN |-> 0]
    /\ nPass = 0
    /\ lastPass = NoPass
    /\ choice_spec = Regular
    /\ duration = Timedelta(0, 0, 0)
    /\ sleep_time = 0
    /\ now = 0
    /\ computes = << >>
    /\ logs = [n \in Nodes |-> FALSE]
    /\ cases = << >>
    /\ test_end_time = 0
    /\ state = [id \in Ids |-> "absent"]
    /\ last_retry = 0
    /\ cooldown = FALSE
    /\ logcheck_count = 0
    /\ test_succeeded = TRUE
    /\ chosen = "none"
    /\ active_vms = << >>
    /\ target = 0
    /\ i = 0
    /\ gets = 0
    /\ result = "none"
    /\ fault = "none"
    /\ nextHandle = 0
    /\ ev = "none"
    /\ lastCheck = NoCheck
    /\ nIter = 0 /\ nInvoke = 0 /\ nCheck = 0
    /\ tripped = FALSE
    /\ loopCheckTrue = FALSE
    /\ sinceCheck = 0
    /\ deleted = {}
    /\ firstPoll = TRUE
    /\ seed = NoSeed
    /\ gen = << 0, 0 >>
    /\ sampled = << << >>, << >> >>
    /\ outcomes = << >>

PoolDrain ==
    /\ pc = "pool"
    /\ nPass < poolK
    /\ LET ans == [h \in Range(retry_list) |-> ProfileAnswer(h)]
       IN  /\ lastPass' = [before |-> retry_list, answers |-> ans,
                           raiser |-> 0, made |-> TRUE]
           /\ retry_list' = NewRetryList(retry_list, ans)
    /\ calls' = [h \in DOMAIN calls |->
                   IF h \in Range(retry_list) THEN calls[h] + 1 ELSE calls[h]]
    /\ nPass' = nPass + 1
    /\ ev' = "pass"
    /\ UNCHANGED << pc, inputs, now, logs, cases, test_end_time, state,
                    last_retry, cooldown, logcheck_count, test_succeeded,
                    chosen, nextHandle, cleanupVars, result, fault, lastCheck,
                    nIter, nInvoke, nCheck, histFlags >>

SpecPool == PoolInit /\ [][PoolDrain]_vars

-----------------------------------------------------------------------------
(***************************************************************************)
(* The sampling of lines 131 and 149 for two runs side by side, started    *)
(* with the same seed and the same workload.  The generator of the random  *)
(* module is a small congruential one: seeding with a number fixes its     *)
(* state, seeding with None takes a state from the system, and every draw  *)
(* moves it.  The generator is the module's, shared with the action layer: *)
(* the action invoked at a place of the sequence draws from it too, as     *)
(* often in one run as in the other (outcomes).  gen starts as whatever    *)
(* the process left in it.                                                 *)
(***************************************************************************)
GenStates == 0..6

\* random.seed(seed) not called: the generator keeps the state it had
SeededStates_not_called(g, s) == {g}

\* line 131, random.seed(seed): the states the generator may be left in
SeededStates(g, s) == IF s = NoSeed THEN GenStates ELSE {(2 * s + 1) % 7}

RandomNext(g) == (3 * g + 1) % 7

\* line 149, random.choice(seq): seq[int(random() * len(seq))]
RandomChoice(g, seq) == seq[((RandomNext(g) * Len(seq)) \div 7) + 1]

\* the generator after an action that drew k times from it
Drawn(g, k) == IF k = 0 THEN g ELSE RandomNext(g)

SampleInit ==
    /\ pc = "seeding"
    /\ choice_spec \in {Regular, ZeroLast}
    /\ seed \in {NoSeed} \cup (0..MaxSeed)
    /\ gen \in GenStates \X GenStates
    /\ sampled = << << >>, << >> >>
    /\ outcomes = << >>
    /\ duration = Timedelta(0, 3, 0)
    /\ sleep_time = 0
    /\ now = 0
    /\ computes = << >>
    /\ logs = [n \in Nodes |-> FALSE]
    /\ cases = << >>
    /\ test_end_time = 0
    /\ state = [id \in Ids |-> "absent"]
    /\ retry_list = << >>
    /\ last_retry = 0
    /\ cooldown = FALSE
    /\ logcheck_count = 0
    /\ test_succeeded = TRUE
    /\ chosen = "none"
    /\ active_vms = << >>
    /\ target = 0
    /\ i = 0
    /\ gets = 0
    /\ result = "none"
    /\ fault = "none"
    /\ nextHandle = 0
    /\ calls = [h \in Handles |-> 0]
    /\ ev = "none"
    /\ lastPass = NoPass
    /\ lastCheck = NoCheck
    /\ nIter = 0 /\ nInvoke = 0 /\ nPass = 0 /\ nCheck = 0
    /\ tripped = FALSE
    /\ loopCheckTrue = FALSE
    /\ sinceCheck = 0
    /\ deleted = {}
    /\ firstPoll = TRUE
    /\ poolK = 0
    /\ poolDone = FALSE

engineVars == << now, logs, test_end_time, state, loopVars, test_succeeded,
                chosen, cleanupVars, result, fault, ev, lastPass, lastCheck,
                nIter, nInvoke, nPass, nCheck, histFlags >>

\* lines 131-132 in both runs
SampleSeed ==
    /\ pc = "seeding"
    /\ gen' \in SeededStates(gen[1], seed) \X SeededStates(gen[2], seed)
    /\ cases' = _create_cases(choice_spec).cases
    /\ pc' = "sampling"
    /\ UNCHANGED << choice_spec, duration, sleep_time, computes, poolK,
                    poolDone, seed, sampled, outcomes, engineVars >>

\* lines 149-151 in run r: the next action is sampled and invoked
SampleStep(r) ==
    /\ pc = "sampling"
    /\ Len(sampled[r]) < MaxDraws
    /\ LET p == Len(sampled[r]) + 1
           c == RandomChoice(gen[r], cases)
       IN  \E k \in 0..1 :
              /\ p <= Len(outcomes) => k = outcomes[p]
              /\ outcomes' = IF p <= Len(outcomes) THEN outcomes
                             ELSE Append(outcomes, k)
              /\ sampled' = [sampled EXCEPT ![r] = Append(@, c.action)]
              /\ gen' = [gen EXCEPT ![r] = Drawn(RandomNext(@), k)]
    /\ UNCHANGED << pc, choice_spec, duration, sleep_time, computes, poolK,
                    poolDone, seed, cases, engineVars >>

NextSample == SampleSeed \/ \E r \in 1..2 : SampleStep(r)

SpecSample == SampleInit /\ [][NextSample]_vars

-----------------------------------------------------------------------------
-----------------------------------------------------------------------------
ValidWeights(spec) ==
    /\ \A j \in DOMAIN spec : spec[j].probability >= 0
    /\ SumWeights(spec) = WeightTotal

AfterLoop == pc \in {"cleanup", "poll", "done", "aborted"}

CleanupFaults == {"DeleteFault", "CleanupTimeout"}

(***************************************************************************)
(* C2.  Catalog invariant, as claimed: for every workload whose weights    *)
(* are non-negative and sum to 100, a zero weight in any place included,   *)
(* _create_cases returns a pool of length 100 in which every action occurs *)
(* as often as its weight.                                                 *)
(***************************************************************************)
C2_CatalogInvariant ==
    (pc \notin {"start", "pool"} /\ ValidWeights(choice_spec)) =>
        /\ fault \notin {"UnboundLocalError", "AssertionError"}
        /\ Len(cases) = WeightTotal
        /\ \A j \in DOMAIN choice_spec :
              Count(cases, choice_spec[j].action) = choice_spec[j].probability

(***************************************************************************)
(* C3.  Cooldown gating: the cooldown flag, once set, stays set, and no    *)
(* step that ends with the flag set samples or invokes an action: not the  *)
(* iteration that saw the deadline pass, nor any later one.                *)
(***************************************************************************)
C3_CooldownGating ==
    [][ /\ cooldown => cooldown'
        /\ cooldown' => (ev' # "invoke" /\ chosen' = "none")
        /\ (cooldown /\ pc = "inject") => (ev' = "skip" /\ nInvoke' = nInvoke) ]_vars

C3_Witness ==
    /\ cooldown
    /\ ev = "skip"
    /\ retry_list # << >>
    /\ nInvoke >= 1
    /\ nPass >= 1

(***************************************************************************)
(* C4.  Failure escalation: once a trip-wire check has returned True the   *)
(* run is out of the loop (no further action, no further drain pass), in   *)
(* teardown or past it, the flag is False, and what the run returns is     *)
(* failure; only a teardown fault can still abort it.                      *)
(***************************************************************************)
C4_FailureEscalation ==
    /\ tripped =>
          /\ AfterLoop
          /\ ~test_succeeded
          /\ pc = "done" => result = "False"
          /\ pc = "aborted" => fault \in CleanupFaults
    /\ (ev = "tripwire" /\ lastCheck.result) => (pc = "cleanup" /\ tripped)

C4_Witness ==
    /\ tripped
    /\ pc = "done"
    /\ result = "False"
    /\ now < test_end_time
    /\ retry_list # << >>

(***************************************************************************)
(* C5.  Retry faults are contained, as claimed: when a handle's retry()    *)
(* raises in a drain pass, the run is not aborted by it, the handle stays  *)
(* in the pool, and every handle of the pass has been retried.             *)
(***************************************************************************)
C5_RetryFaultContained ==
    (lastPass.made /\ lastPass.raiser # 0) =>
        /\ pc # "aborted"
        /\ fault = "none"
        /\ lastPass.before[lastPass.raiser] \in Range(retry_list)
        /\ \A h \in Range(lastPass.before) : calls[h] >= 1

(***************************************************************************)
(* C6.  Cleanup timeout: the poll counter passes the budget exactly in a   *)
(* run aborted by the cleanup timeout; that run made one last check in the *)
(* step that raised and dropped its result, returned nothing, emitted no   *)
(* summary, and left the record of the server it polled, and of those      *)
(* after it, in the tracker.                                               *)
(***************************************************************************)
C6_CleanupTimeout ==
    /\ BudgetSpent(i) <=> fault = "CleanupTimeout"
    /\ test_succeeded <=> ~loopCheckTrue
    /\ fault = "CleanupTimeout" =>
          /\ pc = "aborted"
          /\ result = "none"
          /\ ev = "timeout"
          /\ lastCheck.made
          /\ target \in DOMAIN active_vms
          /\ \A j \in DOMAIN active_vms :
                j >= target => state[active_vms[j]] = "ACTIVE"

C6_Witness ==
    /\ fault = "CleanupTimeout"
    /\ lastCheck.result
    /\ test_succeeded

(***************************************************************************)
(* C7.  Outcome flag: a run that returns returns False exactly when a      *)
(* check inside the loop returned True; a detection takes the run to       *)
(* teardown without raising, and a run that returns has deleted and        *)
(* confirmed every server of active_vms.                                   *)
(***************************************************************************)
C7_OutcomeFlag ==
    /\ pc = "done" =>
          /\ result = (IF loopCheckTrue THEN "False" ELSE "True")
          /\ fault = "none"
          /\ target = Len(active_vms) + 1
          /\ \A j \in DOMAIN active_vms : active_vms[j] \in deleted
    /\ loopCheckTrue =>
          /\ AfterLoop
          /\ pc = "aborted" => fault \in CleanupFaults

C7_Witness ==
    /\ pc = "done"
    /\ loopCheckTrue
    /\ ~tripped
    /\ result = "False"
    /\ active_vms # << >>

C9_NodeReadFailOpen ==
    lastCheck.made =>
        /\ lastCheck.result <=>
              \E n \in Range(computes) : n \notin lastCheck.down /\ logs[n]
        /\ ~lastCheck.result => lastCheck.reads = Len(computes)
        /\ ev \in {"check", "tripwire"} => (pc # "aborted" /\ fault = "none")

C9_Witness ==
    /\ lastCheck.made
    /\ computes[1] \in lastCheck.down
    /\ logs[computes[1]]
    /\ logs[computes[2]]
    /\ lastCheck.result
    /\ lastCheck.reads = 2

(***************************************************************************)
(* C10.  Zero duration: a run with duration zero invokes no action and     *)
(* makes no drain pass; it leaves the loop in its first iteration after    *)
(* exactly one check, goes through teardown and returns an outcome.        *)
(***************************************************************************)
DurationZero == duration = Timedelta(0, 0, 0)

C10_ZeroDuration ==
    (DurationZero /\ pc \notin {"start", "pool"}) =>
        /\ nInvoke = 0 /\ chosen = "none"
        /\ nPass = 0
        /\ pc \in {"inject", "check", "cleanup", "poll", "done"}
        /\ fault = "none"
        /\ pc = "inject" => (nIter = 0 /\ nCheck = 0)
        /\ pc = "check" => (nIter = 1 /\ nCheck = 0 /\ cooldown)
        /\ AfterLoop => (nIter = 1 /\ nCheck = 1 /\ cooldown)
        /\ pc = "done" => result \in {"True", "False"}
        /\ pc # "done" => ENABLED Next

C10_Witness ==
    /\ DurationZero
    /\ pc = "done"
    /\ nIter = 1
    /\ nCheck = 1
    /\ lastCheck = NoCheck

-----------------------------------------------------------------------------
(***************************************************************************)
(* C11.  Weight-sum check fails fast: a workload whose weights do not sum  *)
(* to 100 ends the run with a fault raised while the pool is built: the    *)
(* loop is never entered, no action is sampled or invoked, no drain pass   *)
(* and no check is made, no teardown step is taken and nothing is          *)
(* returned; the weights are never rescaled to make a pool of 100.         *)
(***************************************************************************)
C11_WeightSumFailsFast ==
    (pc \notin {"start", "pool"} /\ SumWeights(choice_spec) # WeightTotal) =>
        /\ pc = "aborted"
        /\ fault \in {"AssertionError", "UnboundLocalError"}
        /\ ev = "setup"
        /\ cases = << >>
        /\ nIter = 0 /\ nInvoke = 0 /\ nPass = 0 /\ nCheck = 0
        /\ chosen = "none"
        /\ deleted = {} /\ active_vms = << >> /\ target = 0
        /\ result = "none"

C11_Witness ==
    /\ pc = "aborted"
    /\ fault = "AssertionError"
    /\ SumWeights(choice_spec) > WeightTotal

C13_PollBudget ==
    /\ gets <= CleanupTries
    /\ fault = "CleanupTimeout" => gets <= CleanupTries
    /\ (ev = "killed" /\ gets <= CleanupTries) => fault = "none"

(***************************************************************************)
(* C14.  Trip-wire cadence, as claimed: the counter that gates the         *)
(* trip-wire check does not advance in an iteration that invokes no        *)
(* action, the first check is made when 101 actions have been invoked      *)
(* since the start, and each later one when 100 actions have been invoked  *)
(* since the check before it.                                              *)
(***************************************************************************)
C14_TripWireCadence ==
    [][ /\ (pc = "sleep" /\ cooldown) => logcheck_count' <= logcheck_count
        /\ ev' = "tripwire" =>
              sinceCheck = (IF nCheck = 0 THEN LogCheckLimit + 1
                                          ELSE LogCheckLimit) ]_vars

(***************************************************************************)
(* C15.  Deletion is confirmed before a record is dropped, as claimed: in  *)
(* teardown a record leaves the tracker only in a step whose get_server    *)
(* call reported the server not found; a call that failed in another way   *)
(* removes nothing.                                                        *)
(***************************************************************************)
C15_DeletionConfirmed ==
    [][ \A id \in Ids :
           (pc = "poll" /\ state[id] # "absent" /\ state'[id] = "absent")
               => ev' = "killed" ]_vars

(***************************************************************************)
(* C16.  Cooldown exit: the check of the cooldown path is made only in an  *)
(* iteration that finds cooldown set and the pool empty, and is made in    *)
(* every such iteration; its step makes one check, sets the flag to False  *)
(* when the check returned True, raises nothing and goes to teardown       *)
(* whatever the check returned.  While the pool is not empty an iteration  *)
(* goes on to its sleep (or is ended by a fault of retry()), and a cooling *)
(* run leaves the loop for teardown through that check or through a        *)
(* trip-wire check that returned True.                                     *)
(***************************************************************************)
C16_CooldownExit ==
    [][ /\ ev' = "check" =>
              /\ pc = "check" /\ cooldown /\ retry_list = << >>
              /\ pc' = "cleanup"
              /\ fault' = "none"
              /\ lastCheck'.made
              /\ nCheck' = Bump(nCheck)
              /\ test_succeeded' = (test_succeeded /\ ~lastCheck'.result)
        /\ (pc = "check" /\ cooldown /\ retry_list = << >>) => ev' = "check"
        /\ (pc = "check" /\ retry_list # << >>) =>
              (pc' = "sleep" \/ fault' = "RetryFault")
        /\ (cooldown /\ pc \in {"inject", "check", "sleep"} /\ pc' = "cleanup") =>
              (ev' = "check" \/ (ev' = "tripwire" /\ lastCheck'.result)) ]_vars

C16_Witness ==
    /\ ev = "check"
    /\ pc = "cleanup"
    /\ lastCheck.result
    /\ ~test_succeeded
    /\ nPass >= 1
    /\ nextHandle >= 1
    /\ nCheck = 1

(***************************************************************************)
(* C17.  Injection deadline, as claimed: the deadline is the start time    *)
(* (0 in every run here) plus the whole of duration, its days and its      *)
(* microseconds included, and an iteration that begins before that moment  *)
(* samples and invokes an action.  Times are compared in microseconds.     *)
(***************************************************************************)
TotalMicroseconds(d) ==
    (d.days * 86400 + d.seconds) * 1000000 + d.microseconds

C17_InjectionDeadline ==
    (pc \in {"inject", "check", "sleep"}) =>
        /\ test_end_time * 1000000 = TotalMicroseconds(duration)
        /\ (pc = "check" /\ now * 1000000 < TotalMicroseconds(duration)) =>
              ev = "invoke"

(***************************************************************************)
(* C18.  Single log truncation: the step that starts the run leaves the    *)
(* log of every compute node without a marker, and it comes before any     *)
(* action and any check; it is taken once, and no later step of the loop   *)
(* or of teardown removes a marker from a log, so a marker one check could *)
(* see is there for every later check.                                     *)
(***************************************************************************)
C18_SingleTruncation ==
    [][ /\ pc = "start" =>
              /\ ev' = "setup"
              /\ \A n \in Range(computes) : ~logs'[n]
              /\ nInvoke = 0 /\ nCheck = 0 /\ nInvoke' = 0 /\ nCheck' = 0
        /\ pc # "start" =>
              /\ ev' # "setup" /\ pc' # "start"
              /\ \A n \in Nodes : logs[n] => logs'[n] ]_vars

C18_Witness ==
    /\ tripped
    /\ ev = "timeout"
    /\ nCheck >= 2
    /\ lastCheck.result
    /\ lastCheck.reads = 2

(***************************************************************************)
(* C19.  Termination when verifications resolve: with time advancing,      *)
(* every external call returning and every handle dropped by some pass in  *)
(* the end, the run ends: it returns an outcome or is aborted by the       *)
(* cleanup timeout.  And a cooling run whose pool is not empty leaves the  *)
(* loop in no other way than a trip-wire check that returned True.         *)
(***************************************************************************)
C19_Termination ==
    /\ <>(pc \in {"done", "aborted"})
    /\ [](pc = "done" => result \in {"True", "False"})
    /\ [](pc = "aborted" => fault = "CleanupTimeout")
    /\ [][ (cooldown /\ retry_list # << >> /\ pc \in {"inject", "check", "sleep"}
             /\ pc' \notin {"inject", "check", "sleep"})
               => (ev' = "tripwire" /\ lastCheck'.result) ]_vars

C19_Witness ==
    /\ pc = "done"
    /\ nextHandle >= 1
    /\ nPass >= 2
    /\ retry_list = << >>
    /\ ~tripped
    /\ now > test_end_time + RetryInterval

(***************************************************************************)
(* C20.  Pool integrity across drain passes, as claimed: a drain pass      *)
(* calls retry() once on every handle the pool held when the pass began    *)
(* and on no other handle, and no other step calls retry(); every handle   *)
(* in the pool was returned by an invocation of this run; a handle that    *)
(* has left the pool does not come back and is not retried again; the      *)
(* handles a pass keeps stay in the order they had.                        *)
(***************************************************************************)
C20_PoolIntegrity ==
    [][ /\ ev' = "pass" =>
              /\ \A h \in Handles :
                    calls'[h] = IF h \in Range(retry_list)
                                THEN Bump(calls[h]) ELSE calls[h]
              /\ retry_list' =
                    SelectSeq(retry_list, LAMBDA v : v \in Range(retry_list'))
        /\ ev' # "pass" => calls' = calls
        /\ \A h \in Range(retry_list') : h \in 1..nextHandle'
        /\ \A h \in 1..nextHandle :
              h \notin Range(retry_list) =>
                 (h \notin Range(retry_list') /\ calls'[h] = calls[h]) ]_vars

=============================================================================
